---- MODULE Spec2Model ----
(***************************************************************************)
(* A model of src/backend.py, the video-forensics backend: the retry       *)
(* helper with_retries, the asset indexer upload_and_index, the per-claim  *)
(* fact checker gemini_factcheck, the JSON extraction of gemini_json, the  *)
(* splice detector gemini_splice, the generation detector                  *)
(* check_video_synthid, the score fusion compute_final and the two route   *)
(* handlers analyze_factcheck and analyze_ai.                              *)
(*                                                                         *)
(* Each function has its own specification (SpecFinal, SpecRetry,          *)
(* SpecIndex, SpecFactcheck, SpecBackfill, SpecEvidence, SpecJson,         *)
(* SpecSplice, SpecSynthid, SpecRequest; SpecPolling adds fairness to the  *)
(* two functions that poll).                                               *)
(* The external services (TwelveLabs, Tavily, Gemini) are the environment: *)
(* every remote call draws its outcome with \E from a small set.           *)
(*                                                                         *)
(* Numbers: seconds are counted in tenths (base_sleep 1.5 is 15), and the  *)
(* float sum of compute_final is kept exactly, in twentieths.              *)
(***************************************************************************)
EXTENDS Integers, Sequences, FiniteSets, TLC

VARIABLES
    cf_pc,        \* compute_final: "idle" | "returned"
    cf_args,      \* compute_final: the three arguments of the call
    cf_ret,       \* compute_final: the returned dict
    wr_pc,        \* with_retries: "idle" | "returned" | "raised"
    wr_args,      \* with_retries: fn's outcome per invocation, retries, base_sleep
    wr_ret,       \* with_retries: result, invocations of fn, sleeps
    ui_pc,        \* upload_and_index: position in the function
    ui_upload,    \* upload_and_index: what with_retries(_upload) did
    ui_trace,     \* upload_and_index: the remote calls made after the upload, in order
    ui_err,       \* upload_and_index: the exception that left the function, or "none"
    fc_pc,        \* gemini_factcheck: "idle" | "loop" | "returned" | "raised"
    fc_claims,    \* gemini_factcheck: structured["claims"]
    fc_i,         \* gemini_factcheck: index of the next claim of the loop
    fc_out,       \* gemini_factcheck: the list out
    fc_err,       \* gemini_factcheck: the exception that left the function, or "none"
    fc_log,       \* gemini_factcheck: per claim visited, what the iteration did
    sy_pc,        \* check_video_synthid: "idle" | "poll" | "generate" | "returned" | "raised"
    sy_state,     \* check_video_synthid: video_file.state.name
    sy_polls,     \* check_video_synthid: genai.get_file calls made
    sy_fail,      \* check_video_synthid: the failure the except clause caught, or "none"
    sy_text,      \* check_video_synthid: response.text, or <<>> before the response
    sy_ret,       \* check_video_synthid: the returned dict
    gj_pc,        \* gemini_json: "idle" | "returned" | "raised"
    gj_text,      \* gemini_json: what the model does: resp.text, the object in it, api
    gj_ret,       \* gemini_json: the exception raised and the object returned
    sp_pc,        \* gemini_splice: "idle" | "returned" | "raised"
    sp_raw,       \* gemini_splice: raw, the text analyze_video returned
    sp_ret,       \* gemini_splice: the result and the gemini_json calls made
    rq_pc,        \* a request: position in the route handler
    rq_in,        \* a request: the route and the form it was sent with
    rq_tmp,       \* a request: its temporary directory
    rq_done,      \* a request: the stages that have run, in order, each with its outcome
    rq_resp,      \* a request: the response sent
    we_pc,        \* web_evidence_for_claim: "idle" | "returned" | "raised"
    we_res,       \* web_evidence_for_claim: res, what the search returned
    we_ret,       \* web_evidence_for_claim: the returned dict, or the exception raised
    bf_pc,        \* gemini_factcheck, lines 439-448: "idle" | "appended"
    bf_args,      \* lines 439-448: claim, claim_source and the dict line 439 returned
    bf_ret        \* lines 439-448: the verdict appended to out

cf_vars == <<cf_pc, cf_args, cf_ret>>
wr_vars == <<wr_pc, wr_args, wr_ret>>
ui_vars == <<ui_pc, ui_upload, ui_trace, ui_err>>
fc_vars == <<fc_pc, fc_claims, fc_i, fc_out, fc_err, fc_log>>
sy_vars == <<sy_pc, sy_state, sy_polls, sy_fail, sy_text, sy_ret>>
gj_vars == <<gj_pc, gj_text, gj_ret>>
sp_vars == <<sp_pc, sp_raw, sp_ret>>
rq_vars == <<rq_pc, rq_in, rq_tmp, rq_done, rq_resp>>
we_vars == <<we_pc, we_res, we_ret>>
bf_vars == <<bf_pc, bf_args, bf_ret>>
ext_vars == <<sy_vars, gj_vars, sp_vars, rq_vars, we_vars, bf_vars>>
vars == <<cf_vars, wr_vars, ui_vars, fc_vars, ext_vars>>

(***************************************************************************)
(* Bounds of the model.                                                    *)
(***************************************************************************)
MaxVerdicts == 3    \* longest list of claim verdicts given to compute_final
MaxClaims == 2      \* longest list of claims given to gemini_factcheck
ScoreOver == 3      \* scores range over -ScoreOver .. 100 + ScoreOver
FarScore == 300     \* and the two far scores -FarScore and 100 + FarScore
MaxRetries == 4     \* largest retries argument given to with_retries
MaxPolls == 3       \* most polls of one status loop
MaxRawLen == 4      \* longest raw text given to gemini_splice, in tokens
MaxHits == 2        \* most results of one search response
ContentOver == 4    \* content lengths range over WEB_CONTENT_TRIM_CHARS -+ ContentOver

(***************************************************************************)
(* Idle values of each function's variables.                               *)
(***************************************************************************)
NoArgs == <<>>
NoRet == <<>>

cf_idle ==
    /\ cf_pc = "idle"
    /\ cf_args = NoArgs
    /\ cf_ret = NoRet

wr_idle ==
    /\ wr_pc = "idle"
    /\ wr_args = NoArgs
    /\ wr_ret = NoRet

ui_idle ==
    /\ ui_pc = "idle"
    /\ ui_upload = NoRet
    /\ ui_trace = <<>>
    /\ ui_err = "none"

fc_idle ==
    /\ fc_pc = "idle"
    /\ fc_claims = <<>>
    /\ fc_i = 1
    /\ fc_out = <<>>
    /\ fc_err = "none"
    /\ fc_log = <<>>

sy_idle ==
    /\ sy_pc = "idle"
    /\ sy_state = "none"
    /\ sy_polls = 0
    /\ sy_fail = "none"
    /\ sy_text = <<>>
    /\ sy_ret = NoRet

gj_idle ==
    /\ gj_pc = "idle"
    /\ gj_text = <<>>
    /\ gj_ret = NoRet

sp_idle ==
    /\ sp_pc = "idle"
    /\ sp_raw = <<>>
    /\ sp_ret = NoRet

rq_idle ==
    /\ rq_pc = "idle"
    /\ rq_in = NoArgs
    /\ rq_tmp = "none"
    /\ rq_done = <<>>
    /\ rq_resp = NoRet

we_idle ==
    /\ we_pc = "idle"
    /\ we_res = NoArgs
    /\ we_ret = NoRet

bf_idle ==
    /\ bf_pc = "idle"
    /\ bf_args = NoArgs
    /\ bf_ret = NoRet

\* No call has been made yet.
Init ==
    /\ cf_idle /\ wr_idle /\ ui_idle /\ fc_idle
    /\ sy_idle /\ gj_idle /\ sp_idle /\ rq_idle
    /\ we_idle /\ bf_idle

(***************************************************************************)
(* FINAL SCORING: compute_final, src/backend.py 509-551.                   *)
(***************************************************************************)

\* A score argument is <<>> (the key is missing, or its value is None) or <<n>>.
\* int(d.get(key, 0) or 0): a missing, None or zero score counts 0.
ScoreOf(x) == IF x = <<>> THEN 0 ELSE x[1]

\* sum(1 for r in results if r.get("verdict") in ["false", "mixed"])
RECURSIVE CountFalseOrMixed(_)
CountFalseOrMixed(results) ==
    IF results = <<>> THEN 0
    ELSE (IF Head(results).verdict \in {"false", "mixed"} THEN 1 ELSE 0)
         + CountFalseOrMixed(Tail(results))

\* sum(1 for r in results if r.get("verdict") == "unclear")
RECURSIVE CountUnclear(_)
CountUnclear(results) ==
    IF results = <<>> THEN 0
    ELSE (IF Head(results).verdict = "unclear" THEN 1 ELSE 0)
         + CountUnclear(Tail(results))

\* num/den rounded to the nearest integer, a tie going to the even neighbour:
\* Python 3's round() of a float that holds num/den exactly.
RoundHalfEven(num, den) ==
    LET q == num \div den
        r == num % den
    IN  IF 2 * r < den THEN q
        ELSE IF 2 * r > den THEN q + 1
        ELSE IF q % 2 = 0 THEN q ELSE q + 1

\* The float sum of lines 520-524 is not always exact: 0.35 is no binary
\* fraction.  For these arguments the exact sum is k + 1/2 and the double the
\* code holds is one ulp below it, so round() goes down whatever k is.  (The
\* rows are the arguments, among all those the model draws, for which CPython's
\* result differs from RoundHalfEven of the exact sum.)
FloatSumBelowHalf(splice_score, time_score, false_or_mixed, unclear) ==
    /\ false_or_mixed = 0
    /\ unclear = 0
    /\ <<splice_score, time_score>> \in {<<-1, 45>>, <<-1, 85>>, <<0, 90>>, <<7, 85>>}

\* The sum truncated by int() with no round().
RoundedRisk_Truncated(splice_score, time_score, false_or_mixed, unclear) ==
    (5 * splice_score + 7 * time_score + 280 * false_or_mixed + 100 * unclear) \div 20

\* round(risk) of line 525, the sum kept in twentieths:
\* splice*0.25 + time*0.35 + fm*14 + unclear*5 = (5 s + 7 t + 280 fm + 100 u)/20.
RoundedRisk(splice_score, time_score, false_or_mixed, unclear) ==
    LET n20 == 5 * splice_score + 7 * time_score + 280 * false_or_mixed + 100 * unclear
    IN  IF FloatSumBelowHalf(splice_score, time_score, false_or_mixed, unclear)
        THEN n20 \div 20
        ELSE RoundHalfEven(n20, 20)

Max(a, b) == IF a >= b THEN a ELSE b
Min(a, b) == IF a <= b THEN a ELSE b

\* A clamp that forgets the upper limit.
ClampRisk_NoMin(r) == Max(0, r)

\* int(max(0, min(100, round(risk))))
ClampRisk(r) == Max(0, Min(100, r))

\* The rule with the FAKE threshold read as risk > 75.
VerdictOf_StrictFake(false_or_mixed, time_score, risk) ==
    IF false_or_mixed = 0 /\ time_score < 60
    THEN (IF risk < 70 THEN "REAL" ELSE "MISLEADING")
    ELSE IF false_or_mixed >= 2 \/ risk > 75 THEN "FAKE"
    ELSE IF false_or_mixed >= 1 \/ risk >= 50 \/ time_score >= 60 THEN "MISLEADING"
    ELSE "REAL"

\* A rule in which only the risk makes a verdict FAKE.
VerdictOf_RiskOnly(false_or_mixed, time_score, risk) ==
    IF false_or_mixed = 0 /\ time_score < 60
    THEN (IF risk < 70 THEN "REAL" ELSE "MISLEADING")
    ELSE IF risk >= 75 THEN "FAKE"
    ELSE IF false_or_mixed >= 1 \/ risk >= 50 \/ time_score >= 60 THEN "MISLEADING"
    ELSE "REAL"

\* A rule whose MISLEADING arm forgets the timeline score.
VerdictOf_NoTimeline(false_or_mixed, time_score, risk) ==
    IF false_or_mixed = 0 /\ time_score < 60
    THEN (IF risk < 70 THEN "REAL" ELSE "MISLEADING")
    ELSE IF false_or_mixed >= 2 \/ risk >= 75 THEN "FAKE"
    ELSE IF false_or_mixed >= 1 \/ risk >= 50 THEN "MISLEADING"
    ELSE "REAL"

\* A rule whose first branch is entered on either condition, not on both.
VerdictOf_EitherCondition(false_or_mixed, time_score, risk) ==
    IF false_or_mixed = 0 \/ time_score < 60
    THEN (IF risk < 70 THEN "REAL" ELSE "MISLEADING")
    ELSE IF false_or_mixed >= 2 \/ risk >= 75 THEN "FAKE"
    ELSE IF false_or_mixed >= 1 \/ risk >= 50 \/ time_score >= 60 THEN "MISLEADING"
    ELSE "REAL"

\* Lines 528-536.
VerdictOf(false_or_mixed, time_score, risk) ==
    IF false_or_mixed = 0 /\ time_score < 60
    THEN (IF risk < 70 THEN "REAL" ELSE "MISLEADING")
    ELSE IF false_or_mixed >= 2 \/ risk >= 75 THEN "FAKE"
    ELSE IF false_or_mixed >= 1 \/ risk >= 50 \/ time_score >= 60 THEN "MISLEADING"
    ELSE "REAL"

\* A confidence that starts from the upper limit 95 instead of 90.
ConfidenceOf_From95(risk) == Max(50, Min(95, RoundHalfEven(950 - 6 * risk, 10)))

\* int(max(50, min(95, round(90 - risk * 0.6)))): 90 - 0.6 risk = (900 - 6 risk)/10,
\* never a tie since 6 risk is even.
ConfidenceOf(risk) == Max(50, Min(95, RoundHalfEven(900 - 6 * risk, 10)))

\* The returned dict (avg_factcheck_confidence, likely_event_year and posted_date
\* are echoes no verdict depends on, and are left out).  The scores drawn are
\* integers or missing, and the verdicts carry numeric confidences: for a score
\* int() rejects, or a confidence that is no number, the call raises instead.
compute_final(results, splice, timing) ==
    LET false_or_mixed == CountFalseOrMixed(results)
        unclear == CountUnclear(results)
        splice_score == ScoreOf(splice)
        time_score == ScoreOf(timing)
        risk == ClampRisk(RoundedRisk(splice_score, time_score, false_or_mixed, unclear))
    IN  [ verdict |-> VerdictOf(false_or_mixed, time_score, risk),
          confidence_percent |-> ConfidenceOf(risk),
          misinformation_risk_score |-> risk,
          false_or_mixed_claims |-> false_or_mixed,
          unclear_claims |-> unclear,
          splice_risk_score |-> splice_score,
          timeline_mismatch_risk_score |-> time_score ]

\* The inputs drawn: verdict lists in a fixed order of verdicts (the counts of
\* lines 513-514 do not depend on the order), and scores in and around 0..100.
VerdictValues == {"true", "false", "mixed", "unclear", "other"}
VerdictRank(v) ==
    CASE v = "true" -> 1 [] v = "false" -> 2 [] v = "mixed" -> 3
      [] v = "unclear" -> 4 [] OTHER -> 5

ResultLists ==
    { rs \in UNION { [1..n -> [verdict : VerdictValues]] : n \in 0..MaxVerdicts } :
        \A i \in 1..(Len(rs) - 1) : VerdictRank(rs[i].verdict) <= VerdictRank(rs[i + 1].verdict) }

ScoreValues == ((0 - ScoreOver)..(100 + ScoreOver)) \cup {0 - FarScore, 100 + FarScore}
ScoreArgs == {<<>>} \cup { <<n>> : n \in ScoreValues }

ComputeFinal ==
    /\ cf_pc = "idle"
    /\ \E results \in ResultLists, splice \in ScoreArgs, timing \in ScoreArgs :
          /\ cf_args' = [results |-> results, splice |-> splice, timing |-> timing]
          /\ cf_ret' = compute_final(results, splice, timing)
    /\ cf_pc' = "returned"
    /\ UNCHANGED <<wr_vars, ui_vars, fc_vars, ext_vars>>

NextFinal == ComputeFinal
SpecFinal == Init /\ [][NextFinal]_vars

(***************************************************************************)
(* RETRY HELPER: with_retries, src/backend.py 82-95.                       *)
(***************************************************************************)

DefaultRetries == 4        \* retries=4
DefaultBaseSleep == 15     \* base_sleep=1.5, in tenths of a second
SearchRetries == 3         \* with_retries(_search, retries=3, ...)
SearchBaseSleep == 10      \* with_retries(_search, ..., base_sleep=1.0)

\* What one invocation of the wrapped fn() does: it returns ("ok") or raises.
\* ConnectionError stands for the transient failures of a service (network,
\* rate limit, 5xx); ValueError and FileNotFoundError (open() of a missing input
\* file in _upload) are validation errors; TypeError is a programmer error.
TransientErrors == {"ConnectionError"}
ValidationErrors == {"ValueError", "FileNotFoundError", "TypeError"}
FnOutcomes == {"ok"} \cup TransientErrors \cup ValidationErrors

\* debug as it would be were the helper defined: the call returns.
debug_defined == "ok"

\* A call of debug(...), lines 93 and 299.  backend.py neither defines nor
\* imports the name debug, so evaluating the call raises NameError.
debug == "NameError"

\* The loop of lines 84-95 from attempt on.  outcomes[n] is what the n-th
\* invocation of fn does.  The result names what with_retries did: it returned
\* fn's value ("value") or raised (the exception's type), after calls
\* invocations of fn and the sleeps listed; carries is the failure the
\* exception was raised for.
RECURSIVE RetryLoop(_, _, _, _, _, _)
RetryLoop(outcomes, retries, base_sleep, attempt, sleeps, last_err) ==
    IF attempt > retries
    THEN \* line 95: raise RuntimeError(f"Failed after retries: {last_err}")
         [result |-> "RuntimeError", carries |-> last_err,
          calls |-> attempt - 1, sleeps |-> sleeps]
    ELSE LET e == outcomes[attempt] IN
         IF e = "ok"
         THEN \* line 86: return fn()
              [result |-> "value", carries |-> "none",
               calls |-> attempt, sleeps |-> sleeps]
         ELSE IF e = "TypeError"
         THEN \* lines 87-88: except TypeError: raise
              [result |-> "TypeError", carries |-> e,
               calls |-> attempt, sleeps |-> sleeps]
         ELSE IF debug # "ok"
         THEN \* lines 89-93: the handler stops at debug(...), before time.sleep
              [result |-> debug, carries |-> e,
               calls |-> attempt, sleeps |-> sleeps]
         ELSE \* line 94: time.sleep(base_sleep * 2 ** (attempt - 1)), next attempt
              RetryLoop(outcomes, retries, base_sleep, attempt + 1,
                        Append(sleeps, base_sleep * 2 ^ (attempt - 1)), e)

with_retries(outcomes, retries, base_sleep) ==
    RetryLoop(outcomes, retries, base_sleep, 1, <<>>, "none")

\* One call of with_retries, for every behaviour of fn over MaxRetries
\* invocations, every retries up to MaxRetries and both base sleeps in use.
WithRetries ==
    /\ wr_pc = "idle"
    /\ \E outcomes \in [1..MaxRetries -> FnOutcomes], retries \in 0..MaxRetries,
          base_sleep \in {DefaultBaseSleep, SearchBaseSleep} :
          /\ wr_args' = [outcomes |-> outcomes, retries |-> retries, base_sleep |-> base_sleep]
          /\ wr_ret' = with_retries(outcomes, retries, base_sleep)
          /\ wr_pc' = IF with_retries(outcomes, retries, base_sleep).result = "value"
                      THEN "returned" ELSE "raised"
    /\ UNCHANGED <<cf_vars, ui_vars, fc_vars, ext_vars>>

NextRetry == WithRetries
SpecRetry == Init /\ [][NextRetry]_vars

(***************************************************************************)
(* TWELVELABS PIPELINE: upload_and_index, src/backend.py 245-284.          *)
(* ui_trace lists the remote calls that follow the upload, each with the   *)
(* status it returned ("error": the call raised).                          *)
(***************************************************************************)

\* The status field of a retrieved asset or indexed asset: the two terminal
\* values the loops test for, and any other value.
TerminalStatuses == {"ready", "failed"}
Statuses == {"processing", "queued"} \cup TerminalStatuses

Call(name, status) == [call |-> name, status |-> status]

\* How often the trace holds a call of this name.
CallCount(trace, name) == Cardinality({ i \in 1..Len(trace) : trace[i].call = name })

\* An asset loop that leaves the loop on either terminal status.
AssetPollNext_BreakOnFailed(status) ==
    IF status \in {"ready", "failed"} THEN "index_request"
    ELSE IF status = "error" THEN "raised"
    ELSE "asset_poll"

\* Lines 258-265: where one poll of the asset status leads.
AssetPollNext(status) ==
    IF status = "error" THEN "raised"             \* client.assets.retrieve raised
    ELSE IF status = "ready" THEN "index_request" \* break
    ELSE IF status = "failed" THEN "raised"       \* raise RuntimeError
    ELSE "asset_poll"                             \* time.sleep(ASSET_POLL_SEC)

\* An indexing loop that tests for "ready" alone.
IndexPollNext_IgnoreFailed(status) ==
    IF status = "error" THEN "raised"
    ELSE IF status = "ready" THEN "returned"
    ELSE "index_poll"

\* Lines 274-281: where one poll of the indexing status leads.
IndexPollNext(status) ==
    IF status = "error" THEN "raised"             \* indexed_assets.retrieve raised
    ELSE IF status = "ready" THEN "returned"      \* break, return indexed_id
    ELSE IF status = "failed" THEN "raised"       \* raise RuntimeError
    ELSE "index_poll"                             \* time.sleep(INDEX_POLL_SEC)

\* The exception a poll ends with, if it ends the call.
PollError(status, message) ==
    IF status = "failed" THEN message
    ELSE IF status = "error" THEN "ServiceError"
    ELSE "none"

\* Lines 248-254: asset = with_retries(_upload), with the defaults.
UiUpload ==
    /\ ui_pc = "idle"
    /\ \E outcomes \in [1..DefaultRetries -> FnOutcomes] :
          LET r == with_retries(outcomes, DefaultRetries, DefaultBaseSleep) IN
          /\ ui_upload' = r
          /\ ui_pc' = IF r.result = "value" THEN "asset_poll" ELSE "raised"
          /\ ui_err' = IF r.result = "value" THEN "none" ELSE r.result
    /\ UNCHANGED <<ui_trace, cf_vars, wr_vars, fc_vars, ext_vars>>

\* Lines 257-265: one turn of the asset loop.
UiPollAsset ==
    /\ ui_pc = "asset_poll"
    /\ CallCount(ui_trace, "assets.retrieve") < MaxPolls
    /\ \E status \in Statuses \cup {"error"} :
          /\ ui_trace' = Append(ui_trace, Call("assets.retrieve", status))
          /\ ui_pc' = AssetPollNext(status)
          /\ ui_err' = IF AssetPollNext(status) = "raised"
                       THEN PollError(status, "RuntimeError: Asset processing failed")
                       ELSE ui_err
    /\ UNCHANGED <<ui_upload, cf_vars, wr_vars, fc_vars, ext_vars>>

\* Lines 267-270: client.indexes.indexed_assets.create(...).
UiRequestIndexing ==
    /\ ui_pc = "index_request"
    /\ \E status \in {"ok", "error"} :
          /\ ui_trace' = Append(ui_trace, Call("indexed_assets.create", status))
          /\ ui_pc' = IF status = "ok" THEN "index_poll" ELSE "raised"
          /\ ui_err' = IF status = "ok" THEN ui_err ELSE "ServiceError"
    /\ UNCHANGED <<ui_upload, cf_vars, wr_vars, fc_vars, ext_vars>>

\* Lines 272-284: one turn of the indexing loop.
UiPollIndex ==
    /\ ui_pc = "index_poll"
    /\ CallCount(ui_trace, "indexed_assets.retrieve") < MaxPolls
    /\ \E status \in Statuses \cup {"error"} :
          /\ ui_trace' = Append(ui_trace, Call("indexed_assets.retrieve", status))
          /\ ui_pc' = IndexPollNext(status)
          /\ ui_err' = IF IndexPollNext(status) = "raised"
                       THEN PollError(status, "RuntimeError: Indexing failed")
                       ELSE ui_err
    /\ UNCHANGED <<ui_upload, cf_vars, wr_vars, fc_vars, ext_vars>>

NextIndex == UiUpload \/ UiPollAsset \/ UiRequestIndexing \/ UiPollIndex
SpecIndex == Init /\ [][NextIndex]_vars

(***************************************************************************)
(* WEB FACT-CHECKING: web_evidence_for_claim, gemini_json,                 *)
(* gemini_factcheck_one_claim and gemini_factcheck, src/backend.py         *)
(* 298-314 and 356-450.                                                    *)
(*                                                                         *)
(* A text is a sequence of characters.  A dict is a function from its keys *)
(* to values; a value is <<>> (None, JSON null) or <<v>>.                  *)
(***************************************************************************)

\* The claim texts drawn: empty, blank, and texts with and without whitespace
\* around them.
Texts == { <<>>, <<" ">>, <<"a">>, <<" ", "a">>, <<"a", " ">>, <<"a", "a">>, <<"a", " ", "a">> }

\* str.strip(): the text without its leading and trailing whitespace.
RECURSIVE LStrip(_)
LStrip(t) == IF t # <<>> /\ Head(t) = " " THEN LStrip(Tail(t)) ELSE t
RECURSIVE RStrip(_)
RStrip(t) == IF t # <<>> /\ t[Len(t)] = " " THEN RStrip(SubSeq(t, 1, Len(t) - 1)) ELSE t
Strip(t) == RStrip(LStrip(t))

\* d.get(key) or default: the default for a missing key, None and "".  The
\* claim is a text; the claim_source is one of a few names, kept as strings.
TextOr(d, key, default) ==
    IF key \in DOMAIN d /\ d[key] # <<>> /\ d[key][1] # <<>> THEN d[key][1] ELSE default
NameOr(d, key, default) ==
    IF key \in DOMAIN d /\ d[key] # <<>> /\ d[key][1] # "" THEN d[key][1] ELSE default

\* dict.setdefault(key, value): sets the key only if the dict lacks it.
SetDefault(d, key, value) == IF key \in DOMAIN d THEN d ELSE d @@ (key :> <<value>>)

\* The claims of structured["claims"]: each with or without a claim text (any
\* text, None included) and with or without a claim_source.
ClaimDicts ==
    { c @@ src :
        c \in {<<>>, "claim" :> <<>>} \cup { "claim" :> <<t>> : t \in Texts },
        src \in {<<>>, "claim_source" :> <<"caption">>} }
ClaimLists == UNION { [1..n -> ClaimDicts] : n \in 0..MaxClaims }

\* Lines 418-419.
ClaimText(c) == Strip(TextOr(c, "claim", <<>>))
ClaimSource(c) == NameOr(c, "claim_source", "video")   \* no name holds whitespace to strip

\* Lines 356-380: the search through with_retries, then the results kept.
\* outcomes[n] is what the n-th invocation of _search does and hits the number
\* of results of the response (0 also for a response that is no dict).
web_evidence_for_claim(outcomes, hits) ==
    LET res == with_retries(outcomes, SearchRetries, SearchBaseSleep)
    IN  IF res.result = "value"
        THEN [raised |-> "none", results |-> hits, searches |-> res.calls]
        ELSE [raised |-> res.result, results |-> 0, searches |-> res.calls]

\* What the reasoning model answers: the call fails, the text holds no {...}
\* span, the span is no JSON, or it is a JSON object.
GeminiObjects(claim) ==
    { a @@ b @@ c @@ d :
        a \in {<<>>, "claim" :> <<>>, "claim" :> <<claim>>, "claim" :> << <<"z">> >>},
        b \in {<<>>, "verdict" :> <<>>, "verdict" :> <<"false">>},
        c \in {<<>>, "confidence" :> <<90>>},
        d \in {<<>>, [correct_information |-> <<"text">>, explanation |-> <<"text">>,
                      citations |-> << <<"url">> >>, claim_source |-> <<"video">>]} }
GeminiResponses(claim) ==
    { [kind |-> k, obj |-> <<>>] : k \in {"api_error", "no_braces", "invalid_json"} }
    \cup { [kind |-> "json", obj |-> o] : o \in GeminiObjects(claim) }

\* Lines 298-314.  The first statement is a call of debug.
gemini_json(response) ==
    IF debug # "ok"
    THEN [raised |-> debug, called |-> FALSE, obj |-> <<>>]               \* line 299
    ELSE IF response.kind = "api_error"
    THEN [raised |-> "ServiceError", called |-> TRUE, obj |-> <<>>]       \* line 301
    ELSE IF response.kind = "no_braces"
    THEN [raised |-> "ValueError", called |-> TRUE, obj |-> <<>>]         \* line 314
    ELSE IF response.kind = "invalid_json"
    THEN [raised |-> "JSONDecodeError", called |-> TRUE, obj |-> <<>>]    \* line 312
    ELSE [raised |-> "none", called |-> TRUE, obj |-> response.obj]       \* line 312

\* Lines 428-436: the verdict of a claim with no web source.
NoSourcesVerdict(claim, claim_source) ==
    [ claim |-> <<claim>>,
      claim_source |-> <<claim_source>>,
      verdict |-> <<"unclear">>,
      confidence |-> <<0>>,
      correct_information |-> <<"">>,
      explanation |-> <<"No web sources found for this claim.">>,
      citations |-> << <<>> >> ]

\* Lines 440-446: the seven setdefault calls.
Backfill(verdict, claim, claim_source) ==
    SetDefault(SetDefault(SetDefault(SetDefault(SetDefault(SetDefault(SetDefault(
        verdict, "claim", claim), "claim_source", claim_source), "verdict", "unclear"),
        "confidence", 0), "correct_information", ""), "explanation", ""), "citations", <<>>)

\* A loop body that asks the reasoning model before it looks at the sources.
FactcheckClaim_AsksFirst(c, outcomes, hits, response) ==
    LET claim == ClaimText(c)
        claim_source == ClaimSource(c)
        sources == web_evidence_for_claim(outcomes, hits)
        answer == gemini_json(response)
    IN  IF claim = <<>>
        THEN [what |-> "skipped", raised |-> "none", append |-> <<>>,
              results |-> 0, reasoning |-> 0]
        ELSE IF sources.raised # "none"
        THEN [what |-> "search_failed", raised |-> sources.raised, append |-> <<>>,
              results |-> 0, reasoning |-> 0]
        ELSE IF answer.raised # "none"
        THEN [what |-> "reasoning_failed", raised |-> answer.raised, append |-> <<>>,
              results |-> sources.results, reasoning |-> 1]
        ELSE IF sources.results = 0
        THEN [what |-> "no_sources", raised |-> "none",
              append |-> <<NoSourcesVerdict(claim, claim_source)>>,
              results |-> 0, reasoning |-> 1]
        ELSE [what |-> "verdict", raised |-> "none",
              append |-> <<Backfill(answer.obj, claim, claim_source)>>,
              results |-> sources.results, reasoning |-> 1]

\* Lines 418-448, the body of the loop for claim c, given what the search and
\* the reasoning model do: how the iteration ends, what it appends to out, how
\* many results the search returned and how often the reasoning call of line
\* 439 was made.
FactcheckClaim(c, outcomes, hits, response) ==
    LET claim == ClaimText(c)
        claim_source == ClaimSource(c)
        sources == web_evidence_for_claim(outcomes, hits)
        answer == gemini_json(response)
    IN  IF claim = <<>>
        THEN [what |-> "skipped", raised |-> "none", append |-> <<>>,
              results |-> 0, reasoning |-> 0]                              \* 421-422
        ELSE IF sources.raised # "none"
        THEN [what |-> "search_failed", raised |-> sources.raised, append |-> <<>>,
              results |-> 0, reasoning |-> 0]                              \* 425
        ELSE IF sources.results = 0
        THEN [what |-> "no_sources", raised |-> "none",
              append |-> <<NoSourcesVerdict(claim, claim_source)>>,
              results |-> 0, reasoning |-> 0]                              \* 427-437
        ELSE IF answer.raised # "none"
        THEN [what |-> "reasoning_failed", raised |-> answer.raised, append |-> <<>>,
              results |-> sources.results, reasoning |-> 1]                \* 439
        ELSE [what |-> "verdict", raised |-> "none",
              append |-> <<Backfill(answer.obj, claim, claim_source)>>,
              results |-> sources.results, reasoning |-> 1]                \* 439-448

\* The reasoning model answers only when it is asked (line 439): for a
\* non-empty claim whose search returned results.
NoResponse == [kind |-> "not_asked", obj |-> <<>>]
ReasoningAnswers(c, outcomes, hits) ==
    IF /\ ClaimText(c) # <<>>
       /\ web_evidence_for_claim(outcomes, hits).raised = "none"
       /\ web_evidence_for_claim(outcomes, hits).results > 0
    THEN GeminiResponses(ClaimText(c))
    ELSE {NoResponse}

\* What the search of one claim can do: every behaviour of _search over
\* SearchRetries invocations, with no result or one.  The loop body sees a
\* behaviour only through what web_evidence_for_claim makes of it, so one
\* behaviour is kept for each such result.
AllSearchBehaviours ==
    { [outcomes |-> o, hits |-> h] : o \in [1..SearchRetries -> FnOutcomes], h \in 0..1 }
SearchBehaviours ==
    { CHOOSE b \in AllSearchBehaviours : web_evidence_for_claim(b.outcomes, b.hits) = r :
        r \in { web_evidence_for_claim(b.outcomes, b.hits) : b \in AllSearchBehaviours } }

\* Lines 411-416: the call, with the claims of the structured content.
FcCall ==
    /\ fc_pc = "idle"
    /\ fc_claims' \in ClaimLists
    /\ fc_pc' = "loop"
    /\ UNCHANGED <<fc_i, fc_out, fc_err, fc_log, cf_vars, wr_vars, ui_vars, ext_vars>>

\* Lines 417-448: one turn of the loop.  An exception of the search or of the
\* reasoning call leaves gemini_factcheck: nothing in the loop catches it.
FcIterate ==
    /\ fc_pc = "loop"
    /\ fc_i <= Len(fc_claims)
    /\ \E search \in SearchBehaviours :
       \E response \in ReasoningAnswers(fc_claims[fc_i], search.outcomes, search.hits) :
          LET step == FactcheckClaim(fc_claims[fc_i], search.outcomes, search.hits,
                                     response) IN
          /\ fc_log' = Append(fc_log, [claim |-> fc_i, what |-> step.what,
                                       results |-> step.results,
                                       reasoning |-> step.reasoning])
          /\ fc_out' = fc_out \o step.append
          /\ fc_err' = step.raised
          /\ fc_pc' = IF step.raised = "none" THEN "loop" ELSE "raised"
          /\ fc_i' = fc_i + 1
    /\ UNCHANGED <<fc_claims, cf_vars, wr_vars, ui_vars, ext_vars>>

\* Line 450: return {"results": out}.
FcReturn ==
    /\ fc_pc = "loop"
    /\ fc_i > Len(fc_claims)
    /\ fc_pc' = "returned"
    /\ UNCHANGED <<fc_claims, fc_i, fc_out, fc_err, fc_log, cf_vars, wr_vars, ui_vars, ext_vars>>

NextFactcheck == FcCall \/ FcIterate \/ FcReturn
SpecFactcheck == Init /\ [][NextFactcheck]_vars

(***************************************************************************)
(* Lines 439-448 of gemini_factcheck on their own: the dict v that         *)
(* gemini_factcheck_one_claim returned, which is what json.loads made of   *)
(* the model's answer (line 312), given the setdefault calls and appended  *)
(* to out.                                                                 *)
(***************************************************************************)

\* The values the model's JSON can give the keys of a verdict: null, a
\* verdict of the vocabulary or another word, a confidence in or out of
\* 0..100, a text, a list of citations.
VerdictAnswers == {<<>>} \cup { <<w>> : w \in {"true", "false", "mixed", "unclear", "maybe"} }
ConfidenceAnswers == {<<>>} \cup { <<n>> : n \in {-1, 0, 90, 100, 101} }
TextAnswers == {<<>>, <<"text">>}
CitationAnswers == {<<>>, << <<"url">> >>}

\* A key with each of its values, or no key.
KeyWith(key, values) == {<<>>} \cup { key :> v : v \in values }

\* The JSON objects json.loads can return.
ReasoningObjects ==
    { a @@ b @@ c @@ d @@ e @@ f @@ g :
        a \in KeyWith("claim", {<<>>, << <<"z">> >>}),
        b \in KeyWith("claim_source", {<<>>, <<"caption">>}),
        c \in KeyWith("verdict", VerdictAnswers),
        d \in KeyWith("confidence", ConfidenceAnswers),
        e \in KeyWith("correct_information", TextAnswers),
        f \in KeyWith("explanation", TextAnswers),
        g \in KeyWith("citations", CitationAnswers) }

\* Lines 439-448: verdict = gemini_factcheck_one_claim(...) has returned v; the
\* setdefault calls; out.append(verdict).
FcBackfill ==
    /\ bf_pc = "idle"
    /\ \E v \in ReasoningObjects, claim_source \in {"video", "caption"} :
          /\ bf_args' = [claim |-> <<"a">>, claim_source |-> claim_source, verdict |-> v]
          /\ bf_ret' = Backfill(v, <<"a">>, claim_source)
    /\ bf_pc' = "appended"
    /\ UNCHANGED <<cf_vars, wr_vars, ui_vars, fc_vars, sy_vars, gj_vars, sp_vars, rq_vars, we_vars>>

NextBackfill == FcBackfill
SpecBackfill == Init /\ [][NextBackfill]_vars

(***************************************************************************)
(* WEB EVIDENCE: the results web_evidence_for_claim returns, src/backend.py *)
(* 356-380.  A search result is a dict; its content is missing, None       *)
(* (<<>>) or a string, kept as its length in characters (<<n>>).           *)
(***************************************************************************)

WEB_CONTENT_TRIM_CHARS == 3500
EllipsisLen == 3          \* len("...")

\* len(content[:k]) for a content of n characters.
SliceLen(n, k) == Min(n, k)

\* Lines 374-377, for one result r: content = r2.get("content") or "", and
\* the content replaced when it is longer than WEB_CONTENT_TRIM_CHARS.
TrimContent(r) ==
    LET content == IF "content" \in DOMAIN r /\ r["content"] # <<>> THEN r["content"][1] ELSE 0
    IN  IF content > WEB_CONTENT_TRIM_CHARS
        THEN [r EXCEPT !["content"] = <<SliceLen(content, WEB_CONTENT_TRIM_CHARS) + EllipsisLen>>]
        ELSE r

\* Lines 372-378: the list trimmed_results.
trimmed_results(results) == [i \in 1..Len(results) |-> TrimContent(results[i])]

\* The content lengths drawn: empty, around the limit, and twice the limit.
ContentLengths ==
    {0, 2 * WEB_CONTENT_TRIM_CHARS}
    \cup ((WEB_CONTENT_TRIM_CHARS - ContentOver)..(WEB_CONTENT_TRIM_CHARS + ContentOver))
SearchResults ==
    {<<>>, "content" :> <<>>} \cup { "content" :> <<n>> : n \in ContentLengths }

\* What the search returns when it returns: no dict, a dict with no results,
\* or a dict with a list of results.
SearchResponses ==
    { [kind |-> k, results |-> <<>>] : k \in {"not_a_dict", "no_results_key"} }
    \cup { [kind |-> "dict", results |-> rs] :
             rs \in UNION { [1..n -> SearchResults] : n \in 0..MaxHits } }

\* Lines 356-380: res = with_retries(_search, retries=3, base_sleep=1.0), then
\* the results of res trimmed and returned; an exception of with_retries
\* leaves the function.
WebEvidence ==
    /\ we_pc = "idle"
    /\ \E outcomes \in [1..SearchRetries -> FnOutcomes], response \in SearchResponses :
          LET res == with_retries(outcomes, SearchRetries, SearchBaseSleep)
              results == IF response.kind = "dict" THEN response.results ELSE <<>>
          IN  /\ we_res' = [outcomes |-> outcomes, response |-> response]
              /\ we_pc' = IF res.result = "value" THEN "returned" ELSE "raised"
              /\ we_ret' = IF res.result = "value"
                           THEN [raised |-> "none", results |-> trimmed_results(results)]
                           ELSE [raised |-> res.result, results |-> <<>>]
    /\ UNCHANGED <<cf_vars, wr_vars, ui_vars, fc_vars, sy_vars, gj_vars, sp_vars, rq_vars, bf_vars>>

NextEvidence == WebEvidence
SpecEvidence == Init /\ [][NextEvidence]_vars

(***************************************************************************)
(* GEMINI HELPERS: the JSON extraction of gemini_json, src/backend.py      *)
(* 298-314.                                                                *)
(*                                                                         *)
(* A model answer is a sequence of tokens: " " (whitespace), "p" (a word   *)
(* of prose with none of the characters below), "F" (the fence ```),       *)
(* "json" (the word json), "{" and "}", "k" (an object key with its colon, *)
(* "k":), "1" (a literal such as true), "sj" (the string "json") and "s"   *)
(* (the string "").  A parsed JSON value is kept as its tokens without the *)
(* whitespace.                                                             *)
(***************************************************************************)

Tokens == {" ", "p", "F", "json", "{", "}", "k", "1", "sj", "s"}

\* The text without its whitespace tokens.
RECURSIVE Squeeze(_)
Squeeze(t) ==
    IF t = <<>> THEN <<>>
    ELSE (IF Head(t) = " " THEN <<>> ELSE <<Head(t)>>) \o Squeeze(Tail(t))

\* The grammar json.loads accepts over these tokens, whitespace removed:
\* a value is a literal, a string or an object; an object is {} or {"k": value}.
RECURSIVE IsJsonObject(_)
RECURSIVE IsJsonValue(_)
IsJsonObject(c) ==
    /\ Len(c) >= 2
    /\ c[1] = "{"
    /\ c[Len(c)] = "}"
    /\ \/ Len(c) = 2
       \/ Len(c) >= 4 /\ c[2] = "k" /\ IsJsonValue(SubSeq(c, 3, Len(c) - 1))
IsJsonValue(c) ==
    \/ Len(c) = 1 /\ c[1] \in {"1", "sj", "s"}
    \/ IsJsonObject(c)

\* json.loads(text): the value, or JSONDecodeError.
json_loads(text) ==
    IF IsJsonValue(Squeeze(text))
    THEN [raised |-> "none", obj |-> Squeeze(text)]
    ELSE [raised |-> "JSONDecodeError", obj |-> <<>>]

\* The places of a token in a text.
Places(text, tok) == { i \in 1..Len(text) : text[i] = tok }
SetMin(S) == CHOOSE x \in S : \A y \in S : x <= y
SetMax(S) == CHOOSE x \in S : \A y \in S : x >= y

\* text.split("```")[1]: what stands between the first fence and the second,
\* or the end of the text if there is no second fence.
SecondPart(text) ==
    LET first == SetMin(Places(text, "F"))
        later == { i \in Places(text, "F") : i > first }
        stop == IF later = {} THEN Len(text) + 1 ELSE SetMin(later)
    IN  SubSeq(text, first + 1, stop - 1)

\* s.replace("json", "", 1): the first occurrence of the letters json goes, be
\* it the word or the inside of the string "json".
ReplaceJsonOnce(text) ==
    LET at == Places(text, "json") \cup Places(text, "sj")
    IN  IF at = {} THEN text
        ELSE LET i == SetMin(at) IN
             SubSeq(text, 1, i - 1)
             \o (IF text[i] = "sj" THEN <<"s">> ELSE <<>>)
             \o SubSeq(text, i + 1, Len(text))

\* Lines 302-307: the stripped text, or the inside of its first fenced part.
Unfence(text) ==
    IF Places(Strip(text), "F") # {}
    THEN Strip(ReplaceJsonOnce(SecondPart(Strip(text))))
    ELSE Strip(text)

\* Lines 309-311: text[start:end + 1] from the first "{" to the last "}", or
\* <<>> when there is no such span.
BraceSpan(text) ==
    IF Places(text, "{") # {} /\ Places(text, "}") # {}
       /\ SetMax(Places(text, "}")) > SetMin(Places(text, "{"))
    THEN SubSeq(text, SetMin(Places(text, "{")), SetMax(Places(text, "}")))
    ELSE <<>>

\* Lines 302-314, from the text of the response on.
ExtractJson(text) ==
    LET span == BraceSpan(Unfence(text))
    IN  IF span = <<>>
        THEN [raised |-> "ValueError", obj |-> <<>>]       \* line 314
        ELSE json_loads(span)                               \* line 312

\* The JSON objects a model answer is written around.
JsonObjects ==
    { <<"{", "}">>, <<"{", "k", "1", "}">>, <<"{", " ", "k", " ", "1", "}">>,
      <<"{", "k", "sj", "}">>, <<"{", "k", "{", "}", "}">> }

\* The prose before and after it: none, plain, and prose that itself holds
\* braces or a fence.
Proses ==
    { <<>>, <<"p", " ">>, <<" ", "p">>, <<"p", "{", "p", "}", " ">>, <<"}", " ">>,
      <<" ", "{">>, <<"p", "F", " ">> }

\* How the object is fenced: not at all, ```...```, or ```json ... ```.
Fencings == {"none", "fence", "json_fence"}
Fenced(object, fencing) ==
    IF fencing = "none" THEN object
    ELSE IF fencing = "fence" THEN <<"F">> \o object \o <<"F">>
    ELSE <<"F", "json", " ">> \o object \o <<" ", "F">>

\* The answers drawn: a JSON object in prose, and texts that hold no object
\* (object is then <<>>).
WrappedAnswers ==
    { [text |-> before \o Fenced(object, fencing) \o after, object |-> object] :
        before \in Proses, object \in JsonObjects, fencing \in Fencings, after \in Proses }
BareAnswers ==
    { [text |-> t, object |-> <<>>] :
        t \in { <<>>, <<" ">>, <<"p">>, <<"p", " ", "p">>, <<"{">>, <<"}">>, <<"}", "{">>,
                <<"F", "F">>, <<"F", "json", "F">>, <<"p", "F", "p">> } }
ModelAnswers == WrappedAnswers \cup BareAnswers

\* Lines 298-314 with the text of the answer at hand.  The first statement is
\* a call of debug; then the request to the model, which may fail (api); then
\* the extraction.  called: whether the model was asked.
gemini_json_text(api, text) ==
    IF debug # "ok"
    THEN [raised |-> debug, called |-> FALSE, obj |-> <<>>]             \* 299
    ELSE IF api # "ok"
    THEN [raised |-> api, called |-> TRUE, obj |-> <<>>]                \* 301
    ELSE [raised |-> ExtractJson(text).raised, called |-> TRUE,
          obj |-> ExtractJson(text).obj]                                \* 302-314

\* One call of gemini_json.
GeminiJson ==
    /\ gj_pc = "idle"
    /\ \E answer \in ModelAnswers, api \in {"ok", "ServiceError"} :
          /\ gj_text' = [text |-> answer.text, object |-> answer.object, api |-> api]
          /\ gj_ret' = gemini_json_text(api, answer.text)
          /\ gj_pc' = IF gemini_json_text(api, answer.text).raised = "none"
                      THEN "returned" ELSE "raised"
    /\ UNCHANGED <<cf_vars, wr_vars, ui_vars, fc_vars, sy_vars, sp_vars, rq_vars, we_vars, bf_vars>>

NextJson == GeminiJson
SpecJson == Init /\ [][NextJson]_vars

(***************************************************************************)
(* SPLICE: gemini_splice, src/backend.py 453-477.                          *)
(***************************************************************************)

\* The raw texts analyze_video returns: every text of up to MaxRawLen tokens.
RawTokens == {" ", "p", "{", "}", "k", "1"}
SpliceRaws == UNION { [1..n -> RawTokens] : n \in 0..MaxRawLen }

\* The answers the reasoning model gives to the repair prompt.
RepairAnswers == { a \in ModelAnswers : Len(a.text) <= 4 }

\* A repair that is tried a second time when it fails.
gemini_splice_RepairsTwice(raw, api, text) ==
    IF json_loads(raw).raised = "none"
    THEN [result |-> "value", obj |-> json_loads(raw).obj, reasoning |-> 0]
    ELSE IF gemini_json_text(api, text).raised = "none"
    THEN [result |-> "value", obj |-> gemini_json_text(api, text).obj, reasoning |-> 1]
    ELSE [result |-> gemini_json_text(api, text).raised, obj |-> <<>>, reasoning |-> 2]

\* Lines 474-477 with raw at hand: json.loads(raw), and on any exception one
\* call of gemini_json, whose value is returned and whose exception leaves
\* gemini_splice.  reasoning counts the calls of gemini_json.
gemini_splice(raw, api, text) ==
    IF json_loads(raw).raised = "none"
    THEN [result |-> "value", obj |-> json_loads(raw).obj, reasoning |-> 0]       \* 475
    ELSE [result |-> IF gemini_json_text(api, text).raised = "none" THEN "value"
                     ELSE gemini_json_text(api, text).raised,
          obj |-> gemini_json_text(api, text).obj, reasoning |-> 1]               \* 477

\* One call of gemini_splice: analyze_video (line 472) raises or returns raw.
\* analyzed: whether analyze_video returned.
GeminiSplice ==
    /\ sp_pc = "idle"
    /\ \/ /\ sp_raw' = <<>>
          /\ sp_ret' = [result |-> "ServiceError", obj |-> <<>>, reasoning |-> 0,
                        analyzed |-> FALSE]
          /\ sp_pc' = "raised"
       \/ \E raw \in SpliceRaws, api \in {"ok", "ServiceError"}, answer \in RepairAnswers :
             LET r == gemini_splice(raw, api, answer.text) IN
             /\ sp_raw' = raw
             /\ sp_ret' = [result |-> r.result, obj |-> r.obj, reasoning |-> r.reasoning,
                           analyzed |-> TRUE]
             /\ sp_pc' = IF r.result = "value" THEN "returned" ELSE "raised"
    /\ UNCHANGED <<cf_vars, wr_vars, ui_vars, fc_vars, sy_vars, gj_vars, rq_vars, we_vars, bf_vars>>

NextSplice == GeminiSplice
SpecSplice == Init /\ [][NextSplice]_vars

(***************************************************************************)
(* SYNTHID: check_video_synthid, src/backend.py 171-229.                   *)
(***************************************************************************)

\* video_file.state.name: the state the loop waits in, the two states a file
\* ends in, and any other name.
FileStates == {"PROCESSING", "ACTIVE", "FAILED", "STATE_UNSPECIFIED"}

\* The dict of lines 225 and 229.
NeutralResult(note) ==
    [is_ai |-> FALSE, trust_score |-> 50, confidence |-> 50, note |-> note]

\* An except clause that lets the exception go on to the caller.
SynthidExcept_Propagates(failure) ==
    [pc |-> "raised", fail |-> failure, ret |-> NoRet]

\* Lines 227-229: except Exception returns the neutral dict, whatever was
\* raised in lines 176-225.
SynthidExcept(failure) ==
    [pc |-> "returned", fail |-> failure,
     ret |-> [fallback |-> TRUE, dict |-> NeutralResult("Error")]]

\* A loop that waits for ACTIVE alone, and so waits on when the file has failed.
SynthidAfterState_WaitsForActive(state) ==
    IF state # "ACTIVE" THEN [pc |-> "poll", fail |-> "none", ret |-> NoRet]
    ELSE [pc |-> "generate", fail |-> "none", ret |-> NoRet]

\* Lines 182-189, with the file's state at hand: wait on, fail, or go on.
SynthidAfterState(state) ==
    IF state = "PROCESSING" THEN [pc |-> "poll", fail |-> "none", ret |-> NoRet]
    ELSE IF state = "FAILED" THEN SynthidExcept("upload_failed")      \* line 187
    ELSE [pc |-> "generate", fail |-> "none", ret |-> NoRet]

\* Lines 213-225: the response's text to the returned dict.
SynthidParse(text) ==
    LET span == BraceSpan(Unfence(text))
    IN  IF span = <<>>
        THEN [pc |-> "returned", fail |-> "no_json",
              ret |-> [fallback |-> TRUE,
                       dict |-> NeutralResult("Unable to parse response")]]  \* line 225
        ELSE IF json_loads(span).raised # "none"
        THEN SynthidExcept("invalid_json")                               \* line 223 raises
        ELSE [pc |-> "returned", fail |-> "none",
              ret |-> [fallback |-> FALSE, dict |-> json_loads(span).obj]] \* line 223

\* Line 178: genai.upload_file(path=video_path).
SyUpload ==
    /\ sy_pc = "idle"
    /\ \E state \in FileStates \cup {"error"} :
          LET to == IF state = "error" THEN SynthidExcept("upload_error")
                    ELSE SynthidAfterState(state)
          IN  /\ sy_state' = state
              /\ sy_pc' = to.pc
              /\ sy_fail' = to.fail
              /\ sy_ret' = to.ret
    /\ UNCHANGED <<sy_polls, sy_text, cf_vars, wr_vars, ui_vars, fc_vars, gj_vars, sp_vars, rq_vars, we_vars, bf_vars>>

\* Lines 182-184: one turn of the loop, time.sleep(2) and genai.get_file.
SyPoll ==
    /\ sy_pc = "poll"
    /\ sy_polls < MaxPolls
    /\ \E state \in FileStates \cup {"error"} :
          LET to == IF state = "error" THEN SynthidExcept("poll_error")
                    ELSE SynthidAfterState(state)
          IN  /\ sy_state' = state
              /\ sy_pc' = to.pc
              /\ sy_fail' = to.fail
              /\ sy_ret' = to.ret
    /\ sy_polls' = sy_polls + 1
    /\ UNCHANGED <<sy_text, cf_vars, wr_vars, ui_vars, fc_vars, gj_vars, sp_vars, rq_vars, we_vars, bf_vars>>

\* Lines 192-225: the request to the video model and the parse of its answer.
SyGenerate ==
    /\ sy_pc = "generate"
    /\ \/ /\ sy_text' = <<>>                       \* generate_content raised
          /\ sy_pc' = SynthidExcept("generation_error").pc
          /\ sy_fail' = SynthidExcept("generation_error").fail
          /\ sy_ret' = SynthidExcept("generation_error").ret
       \/ \E answer \in ModelAnswers :
             /\ sy_text' = answer.text
             /\ sy_pc' = SynthidParse(answer.text).pc
             /\ sy_fail' = SynthidParse(answer.text).fail
             /\ sy_ret' = SynthidParse(answer.text).ret
    /\ UNCHANGED <<sy_state, sy_polls, cf_vars, wr_vars, ui_vars, fc_vars, gj_vars, sp_vars, rq_vars, we_vars, bf_vars>>

NextSynthid == SyUpload \/ SyPoll \/ SyGenerate
SpecSynthid == Init /\ [][NextSynthid]_vars

(***************************************************************************)
(* The two functions that poll, upload_and_index and check_video_synthid.  *)
(* A request calls one of them (analyze_factcheck the first, analyze_ai    *)
(* the second), on a thread that runs on: time.sleep returns and the next  *)
(* statement is executed, which is the weak fairness of the steps.  What   *)
(* the remote reports is left open.                                        *)
(***************************************************************************)
NextPolling == (sy_pc = "idle" /\ NextIndex) \/ (ui_pc = "idle" /\ NextSynthid)
SpecPolling == Init /\ [][NextPolling]_vars /\ WF_vars(NextPolling)

(***************************************************************************)
(* API ROUTES: analyze_factcheck and analyze_ai, src/backend.py 631-809.   *)
(* A request runs the stages of its route one after the other; rq_done     *)
(* lists the stages that have run, each with the exception it raised       *)
(* ("none": it returned).  A response is its status, the top-level keys of *)
(* its JSON body, the error it reports and the stage results it holds.     *)
(***************************************************************************)

Routes == {"factcheck", "ai"}

\* An order of calls that asks for the analysis of the video before the upload
\* has returned its video_id.
FactcheckStages_AnalyzeBeforeUpload ==
    << "create_index", "analyze_video", "upload_and_index", "gemini_structure",
       "gemini_factcheck", "gemini_splice", "gemini_timeline", "compute_final" >>

\* The calls of the try block, in the order of the code: lines 665-696 and
\* lines 768-771.
FactcheckStages ==
    << "create_index", "upload_and_index", "analyze_video", "gemini_structure",
       "gemini_factcheck", "gemini_splice", "gemini_timeline", "compute_final" >>
AiStages == << "summarize_metadata", "check_video_synthid" >>
StagesOf(route) == IF route = "factcheck" THEN FactcheckStages ELSE AiStages

\* The local variable a stage's result is assigned to.
ArtifactOf(stage) ==
    CASE stage = "create_index" -> "idx_id"
      [] stage = "upload_and_index" -> "video_id"
      [] stage = "analyze_video" -> "result_text"
      [] stage = "gemini_structure" -> "structured"
      [] stage = "gemini_factcheck" -> "factcheck"
      [] stage = "gemini_splice" -> "splice"
      [] stage = "gemini_timeline" -> "timing"
      [] stage = "compute_final" -> "final"
      [] stage = "summarize_metadata" -> "metadata"
      [] OTHER -> "synthid"

\* The stage results a stage's call is given as arguments: lines 665, 666,
\* 675, 680, 684, 688, 692, 696 and lines 768, 771 (video_path, base_prompt,
\* caption and posted_date are no stage results).
ArgumentsOf(stage) ==
    CASE stage = "upload_and_index" -> {"idx_id"}
      [] stage = "analyze_video" -> {"video_id"}
      [] stage = "gemini_structure" -> {"result_text"}
      [] stage = "gemini_factcheck" -> {"structured"}
      [] stage = "gemini_splice" -> {"video_id"}
      [] stage = "gemini_timeline" -> {"structured"}
      [] stage = "compute_final" -> {"factcheck", "splice", "timing"}
      [] stage = "check_video_synthid" -> {"metadata"}
      [] OTHER -> {}

\* The exceptions gemini_json can raise, and whether it can return.
GeminiJsonErrors ==
    { gemini_json(r).raised : r \in GeminiResponses(<<"a">>) } \ {"none"}
GeminiJsonReturns == \E r \in GeminiResponses(<<"a">>) : gemini_json(r).raised = "none"

\* The exceptions with_retries can raise around the upload and the search.
UploadErrors ==
    { with_retries(o, DefaultRetries, DefaultBaseSleep).result :
        o \in [1..DefaultRetries -> FnOutcomes] } \ {"value"}
SearchErrors ==
    { with_retries(o, SearchRetries, SearchBaseSleep).result :
        o \in [1..SearchRetries -> FnOutcomes] } \ {"value"}

\* The exceptions a stage can end with.
StageErrors(stage) ==
    CASE stage = "create_index" -> {"ServiceError"}
      [] stage = "upload_and_index" ->
            UploadErrors \cup {"ServiceError", "RuntimeError: Asset processing failed",
                               "RuntimeError: Indexing failed"}
      [] stage = "analyze_video" -> {"ServiceError"}
      [] stage = "gemini_structure" -> GeminiJsonErrors              \* line 350
      [] stage = "gemini_factcheck" -> SearchErrors \cup GeminiJsonErrors
      [] stage = "gemini_splice" -> {"ServiceError"} \cup GeminiJsonErrors
      [] stage = "gemini_timeline" -> GeminiJsonErrors               \* line 503
      [] stage = "compute_final" -> {"ValueError"}                   \* int() of a score
      [] stage = "summarize_metadata" -> {"JSONDecodeError"}         \* line 143
      [] OTHER -> IF SynthidExcept("any").pc = "raised" THEN {"Exception"} ELSE {}

\* Whether a stage can return: gemini_structure and gemini_timeline return
\* what gemini_json returns; every other stage has a path that returns.
StageReturns(stage) ==
    IF stage \in {"gemini_structure", "gemini_timeline"} THEN GeminiJsonReturns ELSE TRUE

StageOutcomes(stage) ==
    (IF StageReturns(stage) THEN {"none"} ELSE {}) \cup StageErrors(stage)

\* The results of the stages that have returned.
Artifacts(done) == { ArtifactOf(done[i].stage) : i \in { j \in 1..Len(done) : done[j].raised = "none" } }

\* Lines 643 and 647 (753 and 757): jsonify({"error": ...}), 400.
ClientError == [status |-> 400, keys |-> {"error"}, error |-> "ValidationError", holds |-> {}]

\* An except clause that sends what the stages have computed along.
ErrorResponse_WithPartial(e, done) ==
    [status |-> 500, keys |-> {"error"} \cup Artifacts(done), error |-> e,
     holds |-> Artifacts(done)]

\* Lines 732-736 (798-802): jsonify({"error": str(e)}), 500.
ErrorResponse(e, done) ==
    [status |-> 500, keys |-> {"error"}, error |-> e, holds |-> {}]

\* An exception that leaves the view function: the server answers 500 with a
\* page of its own, no JSON of the handler's.
UnhandledResponse(e) == [status |-> 500, keys |-> {}, error |-> e, holds |-> {}]

\* Lines 705-730 and 773-796: the report.
Report(route) ==
    IF route = "factcheck"
    THEN [status |-> 200,
          keys |-> {"final", "structured", "claims", "factcheck", "splice", "timing",
                    "signals", "details"},
          error |-> "none",
          holds |-> {"final", "structured", "factcheck", "splice", "timing"}]
    ELSE [status |-> 200,
          keys |-> {"is_ai_generated", "trust_score", "confidence", "detection_methods",
                    "metadata", "note"},
          error |-> "none",
          holds |-> {"metadata", "synthid"}]

\* Lines 639-654 (749-759): the request arrives and is validated.
RqReceive ==
    /\ rq_pc = "idle"
    /\ \E route \in Routes, video \in {"missing", "empty_filename", "file"},
          caption \in {"", "caption"}, posted_date \in {"", "2024-01-01"} :
          /\ rq_in' = [route |-> route, video |-> video, caption_text |-> caption,
                       posted_date |-> posted_date]
          /\ rq_pc' = IF video = "file" THEN "mkdtemp" ELSE "done"
          /\ rq_resp' = IF video = "file" THEN rq_resp ELSE ClientError
    /\ UNCHANGED <<rq_tmp, rq_done, cf_vars, wr_vars, ui_vars, fc_vars, sy_vars, gj_vars, sp_vars, we_vars, bf_vars>>

\* Line 658 (762): temp_dir = tempfile.mkdtemp(), outside the try block.
RqMakeTempDir ==
    /\ rq_pc = "mkdtemp"
    /\ \/ /\ rq_tmp' = "exists"
          /\ rq_pc' = "save"
          /\ rq_resp' = rq_resp
       \/ /\ rq_tmp' = rq_tmp
          /\ rq_pc' = "done"
          /\ rq_resp' = UnhandledResponse("OSError")
    /\ UNCHANGED <<rq_in, rq_done, cf_vars, wr_vars, ui_vars, fc_vars, sy_vars, gj_vars, sp_vars, we_vars, bf_vars>>

\* Line 660 (764): video_file.save(video_path), outside the try block: an
\* exception here leaves the function with no finally clause in force.
RqSave ==
    /\ rq_pc = "save"
    /\ \/ /\ rq_pc' = "try"
          /\ rq_resp' = rq_resp
       \/ /\ rq_pc' = "done"
          /\ rq_resp' = UnhandledResponse("OSError")
    /\ UNCHANGED <<rq_in, rq_tmp, rq_done, cf_vars, wr_vars, ui_vars, fc_vars, sy_vars, gj_vars, sp_vars, we_vars, bf_vars>>

\* The next call of the try block.  If it raises, the except clause builds the
\* response and the finally clause is next.
RqStage ==
    /\ rq_pc = "try"
    /\ Len(rq_done) < Len(StagesOf(rq_in.route))
    /\ LET stage == StagesOf(rq_in.route)[Len(rq_done) + 1] IN
       \E raised \in StageOutcomes(stage) :
          LET done == Append(rq_done, [stage |-> stage, raised |-> raised]) IN
          /\ rq_done' = done
          /\ rq_pc' = IF raised = "none" THEN "try" ELSE "finally"
          /\ rq_resp' = IF raised = "none" THEN rq_resp ELSE ErrorResponse(raised, done)
    /\ UNCHANGED <<rq_in, rq_tmp, cf_vars, wr_vars, ui_vars, fc_vars, sy_vars, gj_vars, sp_vars, we_vars, bf_vars>>

\* Lines 698-730 (773-796): every stage has returned; the report is built.
RqReport ==
    /\ rq_pc = "try"
    /\ Len(rq_done) = Len(StagesOf(rq_in.route))
    /\ rq_resp' = Report(rq_in.route)
    /\ rq_pc' = "finally"
    /\ UNCHANGED <<rq_in, rq_tmp, rq_done, cf_vars, wr_vars, ui_vars, fc_vars, sy_vars, gj_vars, sp_vars, we_vars, bf_vars>>

\* Lines 738-743 (804-809): shutil.rmtree(temp_dir); a failure of rmtree is
\* swallowed and leaves the directory.
RqFinally ==
    /\ rq_pc = "finally"
    /\ rq_tmp' \in {"removed", "undeletable"}
    /\ rq_pc' = "done"
    /\ UNCHANGED <<rq_in, rq_done, rq_resp, cf_vars, wr_vars, ui_vars, fc_vars, sy_vars, gj_vars, sp_vars, we_vars, bf_vars>>

NextRequest == RqReceive \/ RqMakeTempDir \/ RqSave \/ RqStage \/ RqReport \/ RqFinally
SpecRequest == Init /\ [][NextRequest]_vars

(***************************************************************************)
(* Claims about compute_final, checked under SpecFinal.                    *)
(***************************************************************************)

\* The arguments of the finished call, as the claims name them.
ArgSplice == ScoreOf(cf_args.splice)
ArgTimeline == ScoreOf(cf_args.timing)
ArgFalseOrMixed ==
    Cardinality({ i \in 1..Len(cf_args.results) : cf_args.results[i].verdict \in {"false", "mixed"} })
ArgUnclear ==
    Cardinality({ i \in 1..Len(cf_args.results) : cf_args.results[i].verdict = "unclear" })

\* C1: whatever the verdict list and the two scores (missing, zero, negative or
\* above 100 included), the returned risk is in 0..100 and the returned
\* confidence is in 50..95.
C1_RiskAndConfidenceBounded ==
    cf_pc = "returned" =>
        /\ cf_ret.misinformation_risk_score \in 0..100
        /\ cf_ret.confidence_percent \in 50..95

\* C1's case: a missing splice score and a timeline score above 100 whose sum
\* had to be clamped.
C1_Witness ==
    /\ cf_pc = "returned"
    /\ cf_args.splice = <<>>
    /\ cf_args.timing # <<>>
    /\ ArgTimeline > 100
    /\ 7 * ArgTimeline + 280 * ArgFalseOrMixed + 100 * ArgUnclear > 20 * 101
    /\ cf_ret.misinformation_risk_score = 100
    /\ cf_ret.confidence_percent = 50

\* C2: the verdict follows the ordered rule of the specification, for every
\* combination of countFalseOrMixed, timelineScore and risk.
C2_VerdictRule ==
    cf_pc = "returned" =>
        LET fm == ArgFalseOrMixed
            t == ArgTimeline
            risk == cf_ret.misinformation_risk_score
            first == fm = 0 /\ t < 60
            fake == fm >= 2 \/ risk >= 75
            misleading == fm >= 1 \/ risk >= 50 \/ t >= 60
        IN  /\ (first /\ risk < 70) => cf_ret.verdict = "REAL"
            /\ (first /\ ~(risk < 70)) => cf_ret.verdict = "MISLEADING"
            /\ (~first /\ fake) => cf_ret.verdict = "FAKE"
            /\ (~first /\ ~fake /\ misleading) => cf_ret.verdict = "MISLEADING"
            /\ (~first /\ ~fake /\ ~misleading) => cf_ret.verdict = "REAL"

\* C2's case: the second branch, decided by the risk threshold 75 alone.
C2_Witness ==
    /\ cf_pc = "returned"
    /\ ArgFalseOrMixed = 1
    /\ cf_ret.misinformation_risk_score = 75
    /\ cf_ret.verdict = "FAKE"

\* C3: for scores in 0..100 the returned risk is the weighted sum
\* 0.25 splice + 0.35 timeline + 14 falseOrMixed + 5 unclear, rounded to a
\* nearest integer and then clamped to 0..100.
C3_RiskFormula ==
    (/\ cf_pc = "returned"
     /\ cf_args.splice # <<>> /\ ArgSplice \in 0..100
     /\ cf_args.timing # <<>> /\ ArgTimeline \in 0..100) =>
        LET sum20 == 5 * ArgSplice + 7 * ArgTimeline + 280 * ArgFalseOrMixed + 100 * ArgUnclear
        IN  \E r \in (sum20 \div 20)..(sum20 \div 20 + 1) :
                /\ 20 * r - sum20 \in -10..10
                /\ cf_ret.misinformation_risk_score = (IF r > 100 THEN 100 ELSE IF r < 0 THEN 0 ELSE r)

\* C3's case: all four terms contribute, and the sum needs rounding up.
C3_Witness ==
    /\ cf_pc = "returned"
    /\ cf_args.splice # <<>> /\ ArgSplice \in 1..100
    /\ cf_args.timing # <<>> /\ ArgTimeline \in 1..100
    /\ ArgFalseOrMixed = 1
    /\ ArgUnclear = 1
    /\ (5 * ArgSplice + 7 * ArgTimeline) % 20 = 15
    /\ 20 * cf_ret.misinformation_risk_score = 5 * ArgSplice + 7 * ArgTimeline + 380 + 5

(***************************************************************************)
(* Claims about with_retries, checked under SpecRetry.                     *)
(***************************************************************************)

\* fn fails transiently at each of its first k invocations.
FailsTransiently(k) == \A n \in 1..k : wr_args.outcomes[n] \in TransientErrors

\* C6: a fn that fails transiently exactly k < retries times and then succeeds
\* makes with_retries return the value after k + 1 invocations and k sleeps,
\* the n-th sleep being base_sleep * 2^(n-1).
C6_RetryThenSuccess ==
    wr_pc # "idle" =>
        \A k \in 0..(wr_args.retries - 1) :
            (FailsTransiently(k) /\ wr_args.outcomes[k + 1] = "ok") =>
                /\ wr_pc = "returned"
                /\ wr_ret.result = "value"
                /\ wr_ret.calls = k + 1
                /\ Len(wr_ret.sleeps) = k
                /\ \A n \in 1..k : wr_ret.sleeps[n] = wr_args.base_sleep * 2 ^ (n - 1)

C8_ExhaustedAfterRetries ==
    (/\ wr_pc # "idle"
     /\ wr_args.retries >= 1
     /\ FailsTransiently(wr_args.retries)) =>
            /\ wr_pc = "raised"
            /\ wr_ret.calls = wr_args.retries
            /\ wr_ret.result = "RuntimeError"
            /\ wr_ret.carries = wr_args.outcomes[wr_args.retries]

(***************************************************************************)
(* Claims about upload_and_index, checked under SpecIndex.                 *)
(***************************************************************************)

\* The places of the trace where a status was observed.
Observed(name, status) ==
    { i \in 1..Len(ui_trace) : ui_trace[i] = Call(name, status) }
Called(name) == { i \in 1..Len(ui_trace) : ui_trace[i].call = name }

\* C9: indexing is requested only after an asset status "ready" was observed,
\* at most once, and never after an asset status "failed"; the indexing status
\* is polled only after indexing was requested.
C9_PollingOrder ==
    /\ \A i \in Called("indexed_assets.create") :
          /\ \E j \in Observed("assets.retrieve", "ready") : j < i
          /\ \A j \in Observed("assets.retrieve", "failed") : ~(j < i)
    /\ Cardinality(Called("indexed_assets.create")) <= 1
    /\ \A i \in Called("indexed_assets.retrieve") :
          \E j \in Observed("indexed_assets.create", "ok") : j < i
    /\ (ui_pc \in {"index_request", "index_poll", "returned"}) =>
          Observed("assets.retrieve", "ready") # {}

\* C9's case: both loops polled more than once, indexing requested in between.
C9_Witness ==
    /\ ui_pc = "returned"
    /\ Len(ui_trace) = 5
    /\ ui_trace[1] = Call("assets.retrieve", "processing")
    /\ ui_trace[2] = Call("assets.retrieve", "ready")
    /\ ui_trace[3] = Call("indexed_assets.create", "ok")
    /\ ui_trace[4] = Call("indexed_assets.retrieve", "processing")
    /\ ui_trace[5] = Call("indexed_assets.retrieve", "ready")

\* C10: the call returns only if both statuses were observed "ready"; a status
\* observed "failed" is the last remote call of the call, which then has
\* failed with the processing error of that loop.
C10_ReadyOrFailed ==
    /\ ui_pc = "returned" =>
          /\ Observed("assets.retrieve", "ready") # {}
          /\ Observed("indexed_assets.retrieve", "ready") # {}
          /\ ui_err = "none"
    /\ \A i \in Observed("assets.retrieve", "failed") :
          /\ i = Len(ui_trace)
          /\ ui_pc = "raised"
          /\ ui_err = "RuntimeError: Asset processing failed"
    /\ \A i \in Observed("indexed_assets.retrieve", "failed") :
          /\ i = Len(ui_trace)
          /\ ui_pc = "raised"
          /\ ui_err = "RuntimeError: Indexing failed"

\* C10's case: the asset became ready and the indexing then failed.
C10_Witness ==
    /\ ui_pc = "raised"
    /\ ui_err = "RuntimeError: Indexing failed"
    /\ Observed("assets.retrieve", "ready") # {}
    /\ ui_trace[Len(ui_trace)] = Call("indexed_assets.retrieve", "failed")

(***************************************************************************)
(* Claims about gemini_factcheck, checked under SpecFactcheck.             *)
(***************************************************************************)

\* The texts of the non-empty claims, in claim order.
RECURSIVE NonEmptyClaimTexts(_)
NonEmptyClaimTexts(claims) ==
    IF claims = <<>> THEN <<>>
    ELSE (IF ClaimText(Head(claims)) = <<>> THEN <<>> ELSE <<ClaimText(Head(claims))>>)
         \o NonEmptyClaimTexts(Tail(claims))

FcEnded == fc_pc \in {"returned", "raised"}
NoSearchFailed == \A k \in 1..Len(fc_log) : fc_log[k].what # "search_failed"

\* C4: for every structured content whose searches all succeed,
\* gemini_factcheck returns one verdict per non-empty claim: as many verdicts
\* as non-empty claims, the i-th carrying the text of the i-th non-empty claim.
C4_OneVerdictPerClaim ==
    (FcEnded /\ NoSearchFailed) =>
        /\ fc_pc = "returned"
        /\ Len(fc_out) = Len(NonEmptyClaimTexts(fc_claims))
        /\ \A i \in 1..Len(fc_out) :
              fc_out[i]["claim"] = <<NonEmptyClaimTexts(fc_claims)[i]>>

\* The place in out of the verdict of the claim visited at turn k.
OutIndex(k) ==
    Cardinality({ j \in 1..k : fc_log[j].what # "skipped" })

\* C5: a claim whose search or reasoning call failed gets the verdict unclear
\* with confidence 0, and the run goes on: gemini_factcheck does not raise.
C5_FailureIsolated ==
    \A k \in 1..Len(fc_log) :
        fc_log[k].what \in {"search_failed", "reasoning_failed"} =>
            /\ fc_pc # "raised"
            /\ Len(fc_out) >= OutIndex(k)
            /\ fc_out[OutIndex(k)]["verdict"] = <<"unclear">>
            /\ fc_out[OutIndex(k)]["confidence"] = <<0>>

(***************************************************************************)
(* Claims about the polling loops, checked under SpecPolling.              *)
(***************************************************************************)

\* The last remote call of upload_and_index, if it was this call and returned
\* a status that is neither terminal nor an error.
LastCallWaits(name) ==
    /\ ui_trace # <<>>
    /\ ui_trace[Len(ui_trace)].call = name
    /\ ui_trace[Len(ui_trace)].status \notin TerminalStatuses \cup {"error"}

UiRunning == ui_pc \in {"asset_poll", "index_request", "index_poll"}
UiEnded == ui_pc \in {"returned", "raised"}

\* The assumption on the remote: a job that is being polled eventually
\* reports a terminal state (or the poll itself fails).
AssetJobReports ==
    [](ui_pc = "asset_poll" =>
          <>(\E i \in 1..Len(ui_trace) :
                /\ ui_trace[i].call = "assets.retrieve"
                /\ ui_trace[i].status \in TerminalStatuses \cup {"error"}))
IndexJobReports ==
    [](ui_pc = "index_poll" =>
          <>(\E i \in 1..Len(ui_trace) :
                /\ ui_trace[i].call = "indexed_assets.retrieve"
                /\ ui_trace[i].status \in TerminalStatuses \cup {"error"}))
FileJobReports ==
    [](sy_pc = "poll" => <>(sy_state \in {"ACTIVE", "FAILED", "error"}))

\* C11: if every remote job eventually reports a terminal state, a call of
\* upload_and_index eventually returns or raises and a call of
\* check_video_synthid eventually returns; and after a poll that reported a
\* non-terminal status the function is still in the same loop, about to poll
\* again: the loops have no count and no clock that would end them.
C11_PollingTerminates ==
    /\ (AssetJobReports /\ IndexJobReports) => (UiRunning ~> UiEnded)
    /\ FileJobReports => (sy_pc \in {"poll", "generate"} ~> sy_pc = "returned")
    /\ [](LastCallWaits("assets.retrieve") => ui_pc = "asset_poll")
    /\ [](LastCallWaits("indexed_assets.retrieve") => ui_pc = "index_poll")
    /\ []((sy_pc # "idle" /\ sy_state = "PROCESSING") => sy_pc = "poll")

\* C11's case: the asset loop polled as often as the model lets it before the
\* asset was ready, the indexing loop polled on once, and the job then failed.
C11_Witness ==
    /\ ui_pc = "raised"
    /\ CallCount(ui_trace, "assets.retrieve") = MaxPolls
    /\ ui_trace[MaxPolls] = Call("assets.retrieve", "ready")
    /\ CallCount(ui_trace, "indexed_assets.retrieve") = 2
    /\ ui_trace[Len(ui_trace)] = Call("indexed_assets.retrieve", "failed")

(***************************************************************************)
(* Claims about the route handlers, checked under SpecRequest.             *)
(***************************************************************************)

RqEnded == rq_pc = "done"
RqFailedStages == { i \in 1..Len(rq_done) : rq_done[i].raised # "none" }

\* C12: when a request has ended, the temporary directory made for it is gone
\* (or rmtree was called on it and failed), whichever way the request ended:
\* with a report, with a handled error, or with a failure of a step after
\* mkdtemp such as the saving of the uploaded file.
C12_TempDirReleased ==
    (RqEnded /\ rq_tmp # "none") => rq_tmp \in {"removed", "undeletable"}

\* C13: a fact-check request that has ended has sent either the complete
\* report (every stage returned; the body holds final, structured, factcheck,
\* splice and timing) or an error alone; and once a stage has raised, the
\* response reports that exception and holds no stage result.
C13_ReportOrError ==
    (rq_pc # "idle" /\ rq_in.route = "factcheck") =>
        /\ RqEnded =>
              \/ /\ rq_resp = Report("factcheck")
                 /\ RqFailedStages = {}
                 /\ Len(rq_done) = Len(FactcheckStages)
                 /\ rq_resp.holds = {"final", "structured", "factcheck", "splice", "timing"}
              \/ /\ rq_resp.status # 200
                 /\ rq_resp.error # "none"
                 /\ rq_resp.keys \subseteq {"error"}
                 /\ rq_resp.holds = {}
        /\ \A i \in RqFailedStages :
              /\ i = Len(rq_done)
              /\ rq_resp.error = rq_done[i].raised
              /\ rq_resp.keys = {"error"}
              /\ rq_resp.holds = {}

\* C13's case: three stages had returned their results when the fourth
\* raised; the response sent is the error alone.
C13_Witness ==
    /\ RqEnded
    /\ rq_in.route = "factcheck"
    /\ Artifacts(rq_done) = {"idx_id", "video_id", "result_text"}
    /\ RqFailedStages = {4}
    /\ rq_resp.status = 500
    /\ rq_resp.keys = {"error"}
    /\ rq_resp.holds = {}

SearchedTurns ==
    { k \in 1..Len(fc_log) : fc_log[k].what \notin {"skipped", "search_failed"} }

\* C15: a claim whose search returned no result gets the verdict unclear with
\* confidence 0 and no citation, and the reasoning call (line 439) is not made
\* for it; for a claim whose search returned at least one result the
\* reasoning call is made exactly once.
C15_NoSourcesNoReasoning ==
    \A k \in SearchedTurns :
        /\ fc_log[k].results = 0 =>
              /\ fc_log[k].reasoning = 0
              /\ Len(fc_out) >= OutIndex(k)
              /\ fc_out[OutIndex(k)]["verdict"] = <<"unclear">>
              /\ fc_out[OutIndex(k)]["confidence"] = <<0>>
              /\ fc_out[OutIndex(k)]["citations"] = << <<>> >>
              /\ fc_out[OutIndex(k)]["claim"] = <<ClaimText(fc_claims[fc_log[k].claim])>>
        /\ fc_log[k].results >= 1 => fc_log[k].reasoning = 1

\* C15's case: the first claim had no result and got its fallback verdict, the
\* second had one and the reasoning call was made for it.
C15_Witness ==
    /\ Len(fc_log) = 2
    /\ fc_log[1].what = "no_sources" /\ fc_log[1].reasoning = 0
    /\ Len(fc_out) >= 1
    /\ fc_out[1]["verdict"] = <<"unclear">>
    /\ fc_log[2].results = 1 /\ fc_log[2].reasoning = 1

(***************************************************************************)
(* Claims about gemini_splice, checked under SpecSplice.                   *)
(***************************************************************************)

\* C16: a raw text that parses as a JSON object is returned as parsed, with no
\* reasoning call; for a raw text that does not parse exactly one reasoning
\* call is made, and when that call fails gemini_splice fails with its error.
C16_ParseThenRepairOnce ==
    (sp_pc # "idle" /\ sp_ret.analyzed) =>
        /\ IsJsonObject(Squeeze(sp_raw)) =>
              /\ sp_pc = "returned"
              /\ sp_ret.obj = Squeeze(sp_raw)
              /\ sp_ret.reasoning = 0
        /\ ~IsJsonValue(Squeeze(sp_raw)) =>
              /\ sp_ret.reasoning = 1
              /\ sp_pc = "raised" => sp_ret.result # "value" /\ sp_ret.obj = <<>>

\* C16's case: a raw text of prose around an object does not parse; the one
\* repair was tried and failed, and so did gemini_splice.
C16_Witness ==
    /\ sp_pc = "raised"
    /\ sp_raw = <<"p", "{", "}">>
    /\ sp_ret.reasoning = 1
    /\ sp_ret.result # "value"

(***************************************************************************)
(* Claims about check_video_synthid, checked under SpecSynthid.            *)
(***************************************************************************)

SynthidFailures ==
    {"upload_error", "poll_error", "upload_failed", "generation_error", "no_json",
     "invalid_json"}

\* C17: no call of check_video_synthid ends with an exception; after any
\* failure (of the upload, of a poll, a file in state FAILED, a failure of the
\* generation, an answer with no JSON span or with an invalid one) the call
\* has returned the neutral dict: is_ai False, trust_score 50, confidence 50.
C17_NeutralOnFailure ==
    /\ sy_pc # "raised"
    /\ sy_fail \in SynthidFailures \cup {"none"}
    /\ sy_fail # "none" =>
          /\ sy_pc = "returned"
          /\ sy_ret.fallback
          /\ sy_ret.dict.is_ai = FALSE
          /\ sy_ret.dict.trust_score = 50
          /\ sy_ret.dict.confidence = 50
    /\ (sy_state = "FAILED" \/ sy_state = "error") => sy_fail # "none"
    /\ (sy_pc = "returned" /\ sy_fail = "none") =>
          /\ ~sy_ret.fallback
          /\ ExtractJson(sy_text).raised = "none"

\* C17's case: the file was ready after a poll and the model answered with a
\* fenced text whose braces hold no valid JSON; the call returned the neutral
\* dict.
C17_Witness ==
    /\ sy_pc = "returned"
    /\ sy_polls >= 1
    /\ sy_state = "ACTIVE"
    /\ sy_fail = "invalid_json"
    /\ Places(sy_text, "F") # {}
    /\ sy_ret.fallback
    /\ sy_ret.dict.trust_score = 50

(***************************************************************************)
(* Claims about gemini_json, checked under SpecJson.                       *)
(***************************************************************************)

\* The text holds no "{" with a "}" after it.
NoBraceSpan(text) ==
    ~ \E i \in Places(text, "{"), j \in Places(text, "}") : i < j

\* C18: when the model answers with a text written around one valid JSON
\* object (prose before and after it, fenced or not, the prose itself free to
\* hold braces and fences), gemini_json returns the object json.loads gives
\* for the embedded JSON; when the text holds no {...} span, gemini_json
\* raises the malformed-output error of line 314.
C18_ExtractionRoundTrips ==
    (gj_pc # "idle" /\ gj_text.api = "ok") =>
        /\ gj_text.object # <<>> =>
              /\ gj_pc = "returned"
              /\ gj_ret.obj = json_loads(gj_text.object).obj
        /\ NoBraceSpan(gj_text.text) =>
              /\ gj_pc = "raised"
              /\ gj_ret.raised = "ValueError"

(***************************************************************************)
(* More claims about compute_final, checked under SpecFinal.               *)
(***************************************************************************)

\* C19 as the specification states it: with no false or mixed verdict and
\* both scores 0, compute_final returns risk 0, verdict REAL, confidence 90.
C19_AllZero ==
    (cf_pc = "returned" /\ ArgFalseOrMixed = 0 /\ ArgTimeline = 0 /\ ArgSplice = 0) =>
        /\ cf_ret.misinformation_risk_score = 0
        /\ cf_ret.verdict = "REAL"
        /\ cf_ret.confidence_percent = 90

\* C19, amended: with no false or mixed verdict and both scores 0 the risk is
\* 5 for each unclear verdict (at most 100); so with no unclear verdict either,
\* compute_final returns risk 0, verdict REAL, confidence 90.
C19_AllZeroNoUnclear ==
    (cf_pc = "returned" /\ ArgFalseOrMixed = 0 /\ ArgTimeline = 0 /\ ArgSplice = 0) =>
        /\ cf_ret.misinformation_risk_score = Min(100, 5 * ArgUnclear)
        /\ ArgUnclear = 0 =>
              /\ cf_ret.misinformation_risk_score = 0
              /\ cf_ret.verdict = "REAL"
              /\ cf_ret.confidence_percent = 90

\* C19's case: verdicts none of which is false, mixed or unclear, and both
\* scores given as 0.
C19_Witness ==
    /\ cf_pc = "returned"
    /\ Len(cf_args.results) >= 1
    /\ ArgFalseOrMixed = 0 /\ ArgUnclear = 0
    /\ cf_args.splice = <<0>> /\ cf_args.timing = <<0>>
    /\ cf_ret.misinformation_risk_score = 0
    /\ cf_ret.verdict = "REAL"
    /\ cf_ret.confidence_percent = 90

\* C20: with two or more false or mixed verdicts the verdict is FAKE, whatever
\* the two scores, the unclear verdicts and the risk; with exactly two, both
\* scores 0 and no unclear verdict, the risk is 28.
C20_TwoFalseIsFake ==
    (cf_pc = "returned" /\ ArgFalseOrMixed >= 2) =>
        /\ cf_ret.verdict = "FAKE"
        /\ (ArgFalseOrMixed = 2 /\ ArgSplice = 0 /\ ArgTimeline = 0 /\ ArgUnclear = 0) =>
              cf_ret.misinformation_risk_score = 28

\* C20's case: two false or mixed verdicts, both scores 0: the risk 28 is
\* below every threshold, and the verdict is FAKE by the count alone.
C20_Witness ==
    /\ cf_pc = "returned"
    /\ ArgFalseOrMixed = 2
    /\ ArgSplice = 0 /\ ArgTimeline = 0
    /\ cf_ret.misinformation_risk_score = 28
    /\ cf_ret.verdict = "FAKE"

\* C21: with no false or mixed verdict and a timeline score of 60 or more,
\* compute_final never returns REAL; when the risk is below 50 the verdict is
\* MISLEADING, as for the timeline score 65 with no other signal (risk 23).
C21_TimelineForcesMisleading ==
    (cf_pc = "returned" /\ ArgFalseOrMixed = 0 /\ ArgTimeline >= 60) =>
        /\ cf_ret.verdict # "REAL"
        /\ cf_ret.misinformation_risk_score < 50 => cf_ret.verdict = "MISLEADING"
        /\ (ArgTimeline = 65 /\ ArgSplice = 0 /\ ArgUnclear = 0) =>
              /\ cf_ret.misinformation_risk_score = 23
              /\ cf_ret.verdict = "MISLEADING"

\* C21's case: the timeline score 65 and nothing else, so that the risk, 23,
\* is below every threshold and the timeline score alone decides.
C21_Witness ==
    /\ cf_pc = "returned"
    /\ ArgFalseOrMixed = 0 /\ ArgUnclear = 0
    /\ ArgSplice = 0
    /\ cf_args.timing = <<65>>
    /\ cf_ret.misinformation_risk_score < 50
    /\ cf_ret.verdict = "MISLEADING"

\* C27: compute_final returns REAL only when there is no false or mixed
\* verdict, the timeline score is below 60 and the risk is below 70; the last
\* arm of the second branch (else REAL) is never taken, since the second
\* branch is entered only with a false or mixed verdict or a timeline score of
\* 60 or more, and each of the two selects FAKE or MISLEADING.
C27_RealOnlyFromFirstBranch ==
    cf_pc = "returned" =>
        LET fm == ArgFalseOrMixed
            t == ArgTimeline
            risk == cf_ret.misinformation_risk_score
            second == ~(fm = 0 /\ t < 60)
        IN  /\ cf_ret.verdict = "REAL" => (fm = 0 /\ t < 60 /\ risk < 70)
            /\ second => (fm >= 1 \/ t >= 60)
            /\ second => cf_ret.verdict \in {"FAKE", "MISLEADING"}
            /\ ~(second /\ ~(fm >= 2 \/ risk >= 75) /\ ~(fm >= 1 \/ risk >= 50 \/ t >= 60))

\* C27's case: the second branch entered with a risk below 50, where only the
\* count or the timeline score keeps the verdict from the last arm.
C27_Witness ==
    /\ cf_pc = "returned"
    /\ ArgFalseOrMixed = 1
    /\ ArgTimeline < 60
    /\ cf_ret.misinformation_risk_score < 50
    /\ cf_ret.verdict = "MISLEADING"

(***************************************************************************)
(* More claims about the request handlers, checked under SpecRequest.      *)
(***************************************************************************)

\* The order of the stages of a fact-check run, as the specification gives it.
PipelineOrder ==
    << "create_index", "upload_and_index", "analyze_video", "gemini_structure",
       "gemini_factcheck", "gemini_splice", "gemini_timeline", "compute_final" >>

\* The results the stages before the k-th have returned.
ArtifactsBefore(k) == Artifacts(SubSeq(rq_done, 1, k - 1))

\* C23: the stages a fact-check run has invoked are the first stages of the
\* order create index, upload-and-index, content extraction, claim
\* structuring, fact-checking, splice detection, timeline check, score fusion,
\* each invoked once; every stage but the last invoked has returned; a stage
\* is given only results that earlier stages of the run have returned, and
\* score fusion those of fact-checking, splice detection and timeline check.
C23_StagesStrictlySequential ==
    (rq_pc # "idle" /\ rq_in.route = "factcheck") =>
        /\ Len(rq_done) <= Len(PipelineOrder)
        /\ \A k \in 1..Len(rq_done) :
              /\ rq_done[k].stage = PipelineOrder[k]
              /\ k < Len(rq_done) => rq_done[k].raised = "none"
              /\ ArgumentsOf(rq_done[k].stage) \subseteq ArtifactsBefore(k)
              /\ rq_done[k].stage = "compute_final" =>
                    /\ ArgumentsOf("compute_final") = {"factcheck", "splice", "timing"}
                    /\ {"factcheck", "splice", "timing"} \subseteq ArtifactsBefore(k)

\* C23's case: content extraction was invoked after create index and
\* upload-and-index had returned, and claim structuring after it.
C23_Witness ==
    /\ rq_pc # "idle" /\ rq_in.route = "factcheck"
    /\ Len(rq_done) = 4
    /\ rq_done[3].stage = "analyze_video" /\ rq_done[3].raised = "none"
    /\ rq_done[4].stage = "gemini_structure"
    /\ {"idx_id", "video_id", "result_text"} \subseteq ArtifactsBefore(4)

\* The stages whose only collaborator is the reasoning model, asked through
\* gemini_json alone.
ReasoningStages == {"gemini_structure", "gemini_timeline"}

\* No collaborator of the run has failed: every stage invoked has returned, or
\* is a reasoning stage that raised before the reasoning model was asked.
NoCollaboratorFailed ==
    \A k \in 1..Len(rq_done) :
        \/ rq_done[k].raised = "none"
        \/ /\ rq_done[k].stage \in ReasoningStages
           /\ rq_done[k].raised \notin {"ServiceError", "ValueError", "JSONDecodeError"}

\* C24: a fact-check run that entered its stages and in which no collaborator
\* failed ends with the Report, not with an error response: every stage has
\* returned, and the Report holds the final verdict that compute_final
\* returned from this run's fact-check, splice and timeline results.
C24_SuccessfulRunReports ==
    (/\ RqEnded
     /\ rq_in.route = "factcheck"
     /\ rq_tmp \in {"removed", "undeletable"}
     /\ NoCollaboratorFailed) =>
        /\ rq_resp = Report("factcheck")
        /\ RqFailedStages = {}
        /\ Len(rq_done) = Len(PipelineOrder)
        /\ rq_done[Len(rq_done)].stage = "compute_final"
        /\ {"final", "factcheck", "splice", "timing"} \subseteq rq_resp.holds

(***************************************************************************)
(* Claims about web_evidence_for_claim, checked under SpecEvidence.        *)
(***************************************************************************)

\* C26: every result web_evidence_for_claim returns has a content of at most
\* WEB_CONTENT_TRIM_CHARS (3500) characters, whatever the length of the
\* content the search returned.
C26_ContentWithinCap ==
    we_pc = "returned" =>
        \A i \in 1..Len(we_ret.results) :
            LET r == we_ret.results[i] IN
            ("content" \in DOMAIN r /\ r["content"] # <<>>) =>
                r["content"][1] <= WEB_CONTENT_TRIM_CHARS

(***************************************************************************)
(* Claims about the verdicts gemini_factcheck appends, checked under       *)
(* SpecBackfill.                                                           *)
(***************************************************************************)

ClaimVerdictKeys ==
    {"claim", "claim_source", "verdict", "confidence", "correct_information",
     "explanation", "citations"}

\* The safe default of a key: the claim and its source as gemini_factcheck
\* read them, unclear, 0, the empty string, the empty list.
SafeDefault(key) ==
    CASE key = "claim" -> <<bf_args.claim>>
      [] key = "claim_source" -> <<bf_args.claim_source>>
      [] key = "verdict" -> <<"unclear">>
      [] key = "confidence" -> <<0>>
      [] key = "citations" -> << <<>> >>
      [] OTHER -> <<"">>

\* The key is missing from the reasoning output, or null in it.
OmittedOrNull(key) == key \notin DOMAIN bf_args.verdict \/ bf_args.verdict[key] = <<>>

====
